---- MODULE Spec2Model ----
(***************************************************************************)
(* A model of the foodgram backend (backend/api, backend/recipes): the     *)
(* favorite/cart toggle, the subscription registry, the short-link issuer  *)
(* and the recipe composition engine.                                      *)
(*                                                                         *)
(* Every request handler is a process that runs in one of the request      *)
(* slots Procs.  A handler's step is one database statement together with  *)
(* the in-memory code that follows it up to the next statement: Django     *)
(* runs in autocommit mode and the handlers open no transaction, so each   *)
(* statement is visible to the other requests as soon as it is executed.   *)
(***************************************************************************)
EXTENDS Integers, Sequences, FiniteSets, TLC

(* ------------------------------ bounds -------------------------------- *)
MaxRows == 2     \* rows the membership tables of a kind may hold together

MaxLen == 2      \* elements of a request's ingredient list and of its tag list

(* ------------------------------ universes ----------------------------- *)
Procs == {"p1", "p2"}       \* request slots: two requests may be in flight
Users == {"u1", "u2"}       \* users.models.User rows (never created or deleted here)
RecipeIds == {"r1", "r2"}   \* primary keys a Recipe row may have
RowIds == 1..MaxRows
IngredientIds == {"i1", "i2"}  \* primary keys of the Ingredient rows
TagIds == {"t1", "t2"}      \* primary keys of the Tag rows

VARIABLES
  Recipe,         \* Recipe table: RecipeIds -> a recipe row or NoRecipe
  Cart,           \* Cart table: a set of rows [id, user, recipe]
  Favorite,       \* Favorite table: a set of rows [id, user, recipe]
  Subscription,   \* Subscription table: a set of rows [id, user, author]
  RecipeIngredient, \* RecipeIngredient table: for each recipe, its rows (ingredient, amount) in insertion order
  RecipeTags,     \* the rows of Recipe.tags: for each recipe, its set of tags
  Shortcut,       \* Shortcut table: for each recipe, its row's link or NoShortcut
  issued,         \* history: the links that get-link responses have carried, per recipe
  payload,        \* the body of the recipe requests of a validation run, or NoPayload
  pc,             \* each request slot's position in its handler
  req,            \* each request slot's current (or last) request and locals
  resp            \* each request slot's last response

vars == <<Recipe, RecipeIngredient, RecipeTags, Cart, Favorite, Subscription,
          Shortcut, issued, payload, pc, req, resp>>

recipeVars == <<Recipe, RecipeIngredient, RecipeTags>>
inputVars == <<payload>>
toggleVars == <<Cart, Favorite>>
subVars == <<Subscription>>
linkVars == <<Shortcut, issued>>

NoRecipe == [exists |-> FALSE]
NoShortcut == "no row"
NoPayload == "none"
NoReq == [op |-> "none"]
AValidRecipe == [exists |-> TRUE, author |-> "u1", cooking_time |-> 1]
NoResp == "none"

(* Responses of the handlers. *)
HTTP_201_CREATED == "201 created"
HTTP_204_NO_CONTENT == "204 no content"
HTTP_400_ALREADY == "400 already exists"
HTTP_400_NOT_IN == "400 not in the relation"
HTTP_404_NOT_FOUND == "404 not found"

(* --------------------------- storage helpers -------------------------- *)

(* The next primary key of a row.  The database never reuses a key of a     *)
(* table; the model draws the keys of Cart and Favorite from one pool and   *)
(* reuses a key only when no row has it and no request holds it, which no   *)
(* handler can tell from a fresh key.                                       *)
HeldIds == {req[p].item : p \in {q \in Procs : pc[q] = "mi_delete"}}

FreshIds == RowIds \ ({row.id : row \in Cart \cup Favorite} \cup HeldIds)

NewId == CHOOSE i \in FreshIds : \A j \in FreshIds : i <= j

(* Cart.objects / Favorite.objects of the action type. *)
Objects(action_type) == IF action_type = "cart" THEN Cart ELSE Favorite

(* queryset = Model.objects.filter(user=user, recipe=recipe) *)
Filter(action_type, user, recipe) ==
  {row \in Objects(action_type) : row.user = user /\ row.recipe = recipe}

(* queryset.exists() *)
ItemExistsNever(action_type, user, recipe) == FALSE

ItemExists(action_type, user, recipe) == Filter(action_type, user, recipe) # {}

(* queryset.first(): the row of the least primary key, or none. *)
First(action_type, user, recipe) ==
  LET q == Filter(action_type, user, recipe)
  IN  CHOOSE row \in q : \A other \in q : row.id <= other.id

(* Model.objects.create(user=user, recipe=recipe): neither model declares a *)
(* constraint, so the insert always succeeds.                               *)
Create(table, user, recipe) ==
  table \cup {[id |-> NewId, user |-> user, recipe |-> recipe]}

(* item.delete(): DELETE ... WHERE id = item.id *)
DeleteById(table, id) == {row \in table : row.id # id}

(* ------------------------- favorite / cart toggle --------------------- *)

(* manage_item: get_object() and the dispatch on the method. *)
ManageItemBegin(p, user, pk, action_type, method) ==
  /\ pc[p] = "idle"
  /\ IF ~Recipe[pk].exists
       THEN /\ pc' = pc
            /\ resp' = [resp EXCEPT ![p] = HTTP_404_NOT_FOUND]
       ELSE /\ pc' = [pc EXCEPT ![p] = IF method = "POST" THEN "mi_exists" ELSE "mi_first"]
            /\ resp' = [resp EXCEPT ![p] = NoResp]
  /\ req' = [req EXCEPT ![p] = [op |-> "manage_item", user |-> user, recipe |-> pk,
                                action_type |-> action_type, method |-> method,
                                item |-> 0]]
  /\ UNCHANGED <<recipeVars, inputVars, toggleVars, subVars, linkVars>>

(* POST: if queryset.exists(): return 400 *)
ManageItemExists(p) ==
  /\ pc[p] = "mi_exists"
  /\ IF ItemExists(req[p].action_type, req[p].user, req[p].recipe)
       THEN /\ pc' = [pc EXCEPT ![p] = "idle"]
            /\ req' = req
            /\ resp' = [resp EXCEPT ![p] = HTTP_400_ALREADY]
       ELSE /\ pc' = [pc EXCEPT ![p] = "mi_create"]
            /\ req' = req
            /\ resp' = resp
  /\ UNCHANGED <<recipeVars, inputVars, toggleVars, subVars, linkVars>>

(* POST: Cart.objects.create(...) or Favorite.objects.create(...), 201 *)
ManageItemCreate(p) ==
  /\ pc[p] = "mi_create"
  /\ FreshIds # {}
  /\ IF req[p].action_type = "cart"
       THEN /\ Cart' = Create(Cart, req[p].user, req[p].recipe)
            /\ Favorite' = Favorite
       ELSE /\ Favorite' = Create(Favorite, req[p].user, req[p].recipe)
            /\ Cart' = Cart
  /\ pc' = [pc EXCEPT ![p] = "idle"]
  /\ req' = req
  /\ resp' = [resp EXCEPT ![p] = HTTP_201_CREATED]
  /\ UNCHANGED <<recipeVars, inputVars, subVars, linkVars>>

(* DELETE: item = queryset.first(); if not item: return 400 *)
ManageItemFirst(p) ==
  /\ pc[p] = "mi_first"
  /\ IF Filter(req[p].action_type, req[p].user, req[p].recipe) = {}
       THEN /\ pc' = [pc EXCEPT ![p] = "idle"]
            /\ resp' = [resp EXCEPT ![p] = HTTP_400_NOT_IN]
            /\ req' = req
       ELSE /\ pc' = [pc EXCEPT ![p] = "mi_delete"]
            /\ resp' = resp
            /\ req' = [req EXCEPT ![p].item =
                         First(req[p].action_type, req[p].user, req[p].recipe).id]
  /\ UNCHANGED <<recipeVars, inputVars, toggleVars, subVars, linkVars>>

(* DELETE: item.delete(), 204 *)
ManageItemDelete(p) ==
  /\ pc[p] = "mi_delete"
  /\ IF req[p].action_type = "cart"
       THEN /\ Cart' = DeleteById(Cart, req[p].item)
            /\ Favorite' = Favorite
       ELSE /\ Favorite' = DeleteById(Favorite, req[p].item)
            /\ Cart' = Cart
  /\ pc' = [pc EXCEPT ![p] = "idle"]
  /\ req' = req
  /\ resp' = [resp EXCEPT ![p] = HTTP_204_NO_CONTENT]
  /\ UNCHANGED <<recipeVars, inputVars, subVars, linkVars>>

(* --------------------------- subscription registry -------------------- *)

(* kwargs['user_id'] of a subscribe request: a user's id, or an id that no  *)
(* User row has.                                                            *)
AuthorIds == Users \cup {"nobody"}

HTTP_400_SELF == "400 cannot subscribe to themselves"
HTTP_400_SUBSCRIBED == "400 subscription already exists"
HTTP_400_NOT_SUBSCRIBED == "400 subscription not found"
HTTP_500_INTEGRITY == "500 IntegrityError"

SubHeldIds == {req[p].item : p \in {q \in Procs : pc[q] = "unsub_delete"}}

SubFreshIds == RowIds \ ({row.id : row \in Subscription} \cup SubHeldIds)

SubNewId == CHOOSE i \in SubFreshIds : \A j \in SubFreshIds : i <= j

(* Subscription.objects.filter(user=user, author=author) *)
SubFilter(user, author) ==
  {row \in Subscription : row.user = user /\ row.author = author}

(* if request.user == author *)
IsSelfNever(user, author) == FALSE

IsSelf(user, author) == user = author

(* The constraint unique_user_author of Subscription.Meta: whether the      *)
(* database refuses a row (user, author).                                   *)
ViolatesUniqueNever(user, author) == FALSE

ViolatesUnique(user, author) == SubFilter(user, author) # {}

(* create: User.objects.get(id=author_id), the self check, and the         *)
(* existence check, in the order of the code.                               *)
SubscribeBegin(p, user, author_id) ==
  /\ pc[p] = "idle"
  /\ req' = [req EXCEPT ![p] = [op |-> "subscribe", user |-> user,
                                author |-> author_id, item |-> 0]]
  /\ IF author_id \notin Users
       THEN /\ pc' = pc
            /\ resp' = [resp EXCEPT ![p] = HTTP_404_NOT_FOUND]
       ELSE IF IsSelf(user, author_id)
       THEN /\ pc' = pc
            /\ resp' = [resp EXCEPT ![p] = HTTP_400_SELF]
       ELSE IF SubFilter(user, author_id) # {}
       THEN /\ pc' = pc
            /\ resp' = [resp EXCEPT ![p] = HTTP_400_SUBSCRIBED]
       ELSE /\ pc' = [pc EXCEPT ![p] = "sub_save"]
            /\ resp' = [resp EXCEPT ![p] = NoResp]
  /\ UNCHANGED <<recipeVars, inputVars, toggleVars, subVars, linkVars>>

(* create: serializer.save(user=request.user).  The INSERT of a pair that   *)
(* the table already holds raises IntegrityError, which create does not     *)
(* catch.                                                                   *)
SubscribeSave(p) ==
  /\ pc[p] = "sub_save"
  /\ IF ViolatesUnique(req[p].user, req[p].author)
       THEN /\ Subscription' = Subscription
            /\ resp' = [resp EXCEPT ![p] = HTTP_500_INTEGRITY]
       ELSE /\ SubFreshIds # {}
            /\ Subscription' = Subscription \cup
                 {[id |-> SubNewId, user |-> req[p].user, author |-> req[p].author]}
            /\ resp' = [resp EXCEPT ![p] = HTTP_201_CREATED]
  /\ pc' = [pc EXCEPT ![p] = "idle"]
  /\ req' = req
  /\ UNCHANGED <<recipeVars, inputVars, toggleVars, linkVars>>

(* destroy: User.objects.get(id=author_id) and                              *)
(* Subscription.objects.get(user=request.user, author=author).              *)
UnsubscribeBegin(p, user, author_id) ==
  /\ pc[p] = "idle"
  /\ IF author_id \notin Users
       THEN /\ pc' = pc
            /\ resp' = [resp EXCEPT ![p] = HTTP_404_NOT_FOUND]
            /\ req' = [req EXCEPT ![p] = [op |-> "unsubscribe", user |-> user,
                                          author |-> author_id, item |-> 0]]
       ELSE IF SubFilter(user, author_id) = {}
       THEN /\ pc' = pc
            /\ resp' = [resp EXCEPT ![p] = HTTP_400_NOT_SUBSCRIBED]
            /\ req' = [req EXCEPT ![p] = [op |-> "unsubscribe", user |-> user,
                                          author |-> author_id, item |-> 0]]
       ELSE /\ pc' = [pc EXCEPT ![p] = "unsub_delete"]
            /\ resp' = [resp EXCEPT ![p] = NoResp]
            /\ req' = [req EXCEPT ![p] =
                         [op |-> "unsubscribe", user |-> user, author |-> author_id,
                          item |-> (CHOOSE row \in SubFilter(user, author_id) : TRUE).id]]
  /\ UNCHANGED <<recipeVars, inputVars, toggleVars, subVars, linkVars>>

(* destroy: subscription.delete(), 204 *)
UnsubscribeDelete(p) ==
  /\ pc[p] = "unsub_delete"
  /\ Subscription' = DeleteById(Subscription, req[p].item)
  /\ pc' = [pc EXCEPT ![p] = "idle"]
  /\ resp' = [resp EXCEPT ![p] = HTTP_204_NO_CONTENT]
  /\ req' = req
  /\ UNCHANGED <<recipeVars, inputVars, toggleVars, linkVars>>

(* The admin site's add form of SubscriptionAdmin: any (user, author) row   *)
(* that the unique constraint admits, a user's row on themselves included.  *)
SubscriptionAdminAdd(user, author) ==
  /\ ~ViolatesUnique(user, author)
  /\ SubFreshIds # {}
  /\ Subscription' = Subscription \cup
       {[id |-> SubNewId, user |-> user, author |-> author]}
  /\ UNCHANGED <<recipeVars, inputVars, toggleVars, linkVars, pc, req, resp>>

(* ------------------------------ short-link issuer --------------------- *)

(* The strings generate_short_link may return: '/s/' and six characters of  *)
(* string.ascii_letters + string.digits.  Two of them stand for all.        *)
Links == {"/s/aaaaaa", "/s/aaaaab"}

(* The link of a Shortcut row that get_or_create has just created.          *)
EmptyLink == ""

(* short_link = f"https://foodgram.example.org{shortcut.link}" *)
ShortLinkUrl(link) == "https://foodgram.example.org" \o link

(* if created: *)
NeedsLinkAlways(created) == TRUE

NeedsLink(created) == created

(* The storage's uniqueness constraint on issued tokens: whether another    *)
(* recipe's Shortcut row already holds the link.                            *)
LinkTaken(link, recipe) ==
  \E other \in RecipeIds \ {recipe} : Shortcut[other] = link

(* get_short_link: get_object() and Shortcut.objects.get_or_create(recipe=  *)
(* recipe); a request that did not create the row answers with its link.    *)
GetShortLinkBegin(p, pk) ==
  /\ pc[p] = "idle"
  /\ req' = [req EXCEPT ![p] = [op |-> "get_link", recipe |-> pk]]
  /\ IF ~Recipe[pk].exists
       THEN /\ pc' = pc
            /\ resp' = [resp EXCEPT ![p] = HTTP_404_NOT_FOUND]
            /\ UNCHANGED linkVars
       ELSE LET created == Shortcut[pk] = NoShortcut
                link == IF created THEN EmptyLink ELSE Shortcut[pk]
            IN  /\ Shortcut' = [Shortcut EXCEPT ![pk] = link]
                /\ IF NeedsLink(created)
                     THEN /\ pc' = [pc EXCEPT ![p] = "gl_save"]
                          /\ resp' = [resp EXCEPT ![p] = NoResp]
                          /\ issued' = issued
                     ELSE /\ pc' = pc
                          /\ resp' = [resp EXCEPT ![p] = ShortLinkUrl(link)]
                          /\ issued' = [issued EXCEPT ![pk] = @ \cup {link}]
  /\ UNCHANGED <<recipeVars, inputVars, toggleVars, subVars>>

(* get_short_link: shortcut.link = self.generate_short_link();              *)
(* shortcut.save(), and the response.  generate_short_link draws once; a    *)
(* link that another recipe holds makes save raise IntegrityError.          *)
GetShortLinkSave(p) ==
  /\ pc[p] = "gl_save"
  /\ \E link \in Links :
       IF LinkTaken(link, req[p].recipe)
         THEN /\ resp' = [resp EXCEPT ![p] = HTTP_500_INTEGRITY]
              /\ UNCHANGED linkVars
         ELSE /\ Shortcut' = [Shortcut EXCEPT ![req[p].recipe] = link]
              /\ resp' = [resp EXCEPT ![p] = ShortLinkUrl(link)]
              /\ issued' = [issued EXCEPT ![req[p].recipe] = @ \cup {link}]
  /\ pc' = [pc EXCEPT ![p] = "idle"]
  /\ req' = req
  /\ UNCHANGED <<recipeVars, inputVars, toggleVars, subVars>>

(* ------------------------ recipe composition engine ------------------- *)

(* The largest value a PositiveSmallIntegerField column stores. *)
PositiveSmallIntegerMax == 32767

(* Values of an ingredient's amount in a request: IntegerField() accepts    *)
(* any integer.                                                             *)
Amounts == {0, 1, PositiveSmallIntegerMax + 1}

(* Values of cooking_time in a request. *)
CookingTimes == {0, 1, 2}

IngredientRows == [id : IngredientIds, amount : Amounts]

IngredientLists == UNION {[1..n -> IngredientRows] : n \in 0..MaxLen}

TagLists == UNION {[1..n -> TagIds] : n \in 0..MaxLen}

(* The bodies of create-recipe and update-recipe requests.  image: whether  *)
(* the body carries an image.                                               *)
RecipeInputs ==
  [ingredients : IngredientLists, tags : TagLists,
   cooking_time : CookingTimes, image : BOOLEAN]

E_FIELD_AMOUNT == "400 ingredients: Amount must be a positive number."
E_FIELD_COOKING_TIME == "400 cooking_time: Ensure this value is greater than or equal to 1."
E_FIELD_BOTH == "400 ingredients: Amount must be a positive number.; cooking_time: Ensure this value is greater than or equal to 1."
E_NO_INGREDIENTS == "400 At least one ingredient is required."
E_DUPLICATE_INGREDIENTS == "400 Duplicate ingredients are not allowed."
E_NO_TAGS == "400 At least one tag is required."
E_DUPLICATE_TAGS == "400 Duplicate tags are not allowed."
E_COOKING_TIME == "400 Cooking time must be a positive number."
E_NO_IMAGE == "400 Image is a required field."
HTTP_200_OK == "200 ok"
HTTP_500_DATA == "500 DataError"

ValidationErrors ==
  {E_FIELD_AMOUNT, E_FIELD_COOKING_TIME, E_FIELD_BOTH, E_NO_INGREDIENTS,
   E_DUPLICATE_INGREDIENTS, E_NO_TAGS, E_DUPLICATE_TAGS, E_COOKING_TIME, E_NO_IMAGE}

SeqToSet(seq) == {seq[i] : i \in 1..Len(seq)}

(* IngredientAmountSerializer.validate_amount, over the items of the list. *)
AmountErrors(ingredients) ==
  \E i \in 1..Len(ingredients) : ingredients[i].amount <= 0

(* The serializer field of cooking_time, built from the model field: its    *)
(* MinValueValidator(1) becomes the field's min_value.                      *)
CookingTimeErrors(cooking_time) == cooking_time < 1

(* RecipeSerializer.validate(attrs): the first failing check, or "ok". *)
ValidateNoDuplicateCheck(attrs) ==
  IF Len(attrs.ingredients) = 0 THEN E_NO_INGREDIENTS
  ELSE IF Len(attrs.tags) = 0 THEN E_NO_TAGS
  ELSE IF Len(attrs.tags) # Cardinality(SeqToSet(attrs.tags)) THEN E_DUPLICATE_TAGS
  ELSE IF attrs.cooking_time <= 0 THEN E_COOKING_TIME
  ELSE IF ~attrs.image THEN E_NO_IMAGE
  ELSE "ok"

Validate(attrs) ==
  LET ingredient_ids == [i \in 1..Len(attrs.ingredients) |-> attrs.ingredients[i].id]
  IN  IF Len(attrs.ingredients) = 0 THEN E_NO_INGREDIENTS
      ELSE IF Len(ingredient_ids) # Cardinality(SeqToSet(ingredient_ids))
        THEN E_DUPLICATE_INGREDIENTS
      ELSE IF Len(attrs.tags) = 0 THEN E_NO_TAGS
      ELSE IF Len(attrs.tags) # Cardinality(SeqToSet(attrs.tags)) THEN E_DUPLICATE_TAGS
      ELSE IF attrs.cooking_time <= 0 THEN E_COOKING_TIME
      ELSE IF ~attrs.image THEN E_NO_IMAGE
      ELSE "ok"

(* serializer.is_valid(raise_exception=True): the fields' own validation    *)
(* first, all its errors in one response, and validate() only when every    *)
(* field passed.                                                            *)
RunValidation(data) ==
  IF AmountErrors(data.ingredients) /\ CookingTimeErrors(data.cooking_time)
    THEN E_FIELD_BOTH
  ELSE IF AmountErrors(data.ingredients) THEN E_FIELD_AMOUNT
  ELSE IF CookingTimeErrors(data.cooking_time) THEN E_FIELD_COOKING_TIME
  ELSE Validate(data)

(* The request bodies that pass the validation, and one that does not. *)
AcceptedInputs == {data \in RecipeInputs : RunValidation(data) = "ok"}

ARejectedInput ==
  [ingredients |-> <<>>, tags |-> <<"t1">>, cooking_time |-> 1, image |-> TRUE]

MaxRecipes == 1  \* recipes the Recipe table may hold at once

LiveRecipes == {r \in RecipeIds : Recipe[r].exists}

(* The primary key of a new Recipe row (the key of a deleted row is free    *)
(* again in the model: nothing refers to it any more).                      *)
NewRecipeId == CHOOSE r \in RecipeIds \ LiveRecipes : TRUE

(* Whether the INSERT of a RecipeIngredient row with this amount can raise: *)
(* amount is a PositiveSmallIntegerField, and a database that enforces the  *)
(* column's range refuses a larger value (one that does not stores it).     *)
InsertOutcomesAlwaysStored(amount) == {TRUE}

InsertOutcomes(amount) ==
  IF amount > PositiveSmallIntegerMax THEN {TRUE, FALSE} ELSE {TRUE}

(* create: Recipe.objects.create of the validated data, after the validation.   *)
RecipeCreateBegin(p, user, data) ==
  /\ pc[p] = "idle"
  /\ IF RunValidation(data) # "ok"
       THEN /\ resp' = [resp EXCEPT ![p] = RunValidation(data)]
            /\ req' = [req EXCEPT ![p] = [op |-> "create", recipe |-> "none"]]
            /\ pc' = pc
            /\ UNCHANGED recipeVars
       ELSE /\ Cardinality(LiveRecipes) < MaxRecipes
            /\ RecipeIds \ LiveRecipes # {}
            /\ Recipe' = [Recipe EXCEPT ![NewRecipeId] =
                 [exists |-> TRUE, author |-> user, cooking_time |-> data.cooking_time]]
            /\ UNCHANGED <<RecipeIngredient, RecipeTags>>
            /\ req' = [req EXCEPT ![p] =
                 [op |-> "create", recipe |-> NewRecipeId,
                  ingredients |-> data.ingredients, tags |-> SeqToSet(data.tags)]]
            /\ resp' = [resp EXCEPT ![p] = NoResp]
            /\ pc' = [pc EXCEPT ![p] = "rc_item"]
  /\ UNCHANGED <<inputVars, toggleVars, subVars, linkVars>>

(* RecipeIngredient.objects.create(recipe=..., ingredient=..., amount=...)  *)
(* for the next element of ingredients_data; `then` is the position after   *)
(* the loop.                                                                *)
InsertItem(p, then) ==
  LET item == Head(req[p].ingredients)
      rest == Tail(req[p].ingredients)
      recipe == req[p].recipe
  IN  \E stored \in InsertOutcomes(item.amount) :
        IF stored /\ Recipe[recipe].exists
          THEN /\ RecipeIngredient' = [RecipeIngredient EXCEPT ![recipe] = Append(@, item)]
               /\ IF rest = <<>> /\ then = "idle"
                    THEN /\ pc' = [pc EXCEPT ![p] = "idle"]
                         /\ resp' = [resp EXCEPT ![p] = HTTP_200_OK]
                         /\ req' = [req EXCEPT ![p] = [op |-> req[p].op, recipe |-> recipe]]
                    ELSE /\ pc' = [pc EXCEPT ![p] = IF rest = <<>> THEN then ELSE @]
                         /\ resp' = resp
                         /\ req' = [req EXCEPT ![p].ingredients = rest]
          ELSE /\ RecipeIngredient' = RecipeIngredient
               /\ req' = [req EXCEPT ![p].ingredients = <<>>, ![p].tags = {}]
               /\ pc' = [pc EXCEPT ![p] = "idle"]
               /\ resp' = [resp EXCEPT ![p] = HTTP_500_DATA]

(* create: the loop over ingredients_data. *)
RecipeCreateItem(p) ==
  /\ pc[p] = "rc_item"
  /\ InsertItem(p, "rc_tags")
  /\ UNCHANGED <<Recipe, RecipeTags, inputVars, toggleVars, subVars, linkVars>>

(* create: recipe.tags.set(tags_data); return recipe *)
RecipeCreateTags(p) ==
  /\ pc[p] = "rc_tags"
  /\ RecipeTags' = [RecipeTags EXCEPT ![req[p].recipe] = req[p].tags]
  /\ pc' = [pc EXCEPT ![p] = "idle"]
  /\ resp' = [resp EXCEPT ![p] = HTTP_201_CREATED]
  /\ req' = [req EXCEPT ![p] = [op |-> "create", recipe |-> req[p].recipe]]
  /\ UNCHANGED <<Recipe, RecipeIngredient, inputVars, toggleVars, subVars, linkVars>>

(* update, by the recipe's author: get_object(), the validation, the        *)
(* assignment of the fields and instance.save().  old: the recipe as it was *)
(* when the request arrived (history).                                      *)
RecipeUpdateBegin(p, pk, data) ==
  /\ pc[p] = "idle"
  /\ IF ~Recipe[pk].exists
       THEN /\ resp' = [resp EXCEPT ![p] = HTTP_404_NOT_FOUND]
            /\ req' = [req EXCEPT ![p] = [op |-> "update", recipe |-> pk]]
            /\ pc' = pc
            /\ UNCHANGED recipeVars
       ELSE IF RunValidation(data) # "ok"
       THEN /\ resp' = [resp EXCEPT ![p] = RunValidation(data)]
            /\ req' = [req EXCEPT ![p] = [op |-> "update", recipe |-> pk]]
            /\ pc' = pc
            /\ UNCHANGED recipeVars
       ELSE /\ Recipe' = [Recipe EXCEPT ![pk].cooking_time = data.cooking_time]
            /\ UNCHANGED <<RecipeIngredient, RecipeTags>>
            /\ req' = [req EXCEPT ![p] =
                 [op |-> "update", recipe |-> pk,
                  ingredients |-> data.ingredients, tags |-> SeqToSet(data.tags),
                  old |-> <<Recipe[pk], RecipeIngredient[pk], RecipeTags[pk]>>]]
            /\ resp' = [resp EXCEPT ![p] = NoResp]
            /\ pc' = [pc EXCEPT ![p] = "ru_tags"]
  /\ UNCHANGED <<inputVars, toggleVars, subVars, linkVars>>

(* update: instance.tags.set(tags_data) *)
RecipeUpdateTags(p) ==
  /\ pc[p] = "ru_tags"
  /\ RecipeTags' = [RecipeTags EXCEPT ![req[p].recipe] = req[p].tags]
  /\ pc' = [pc EXCEPT ![p] = "ru_delete"]
  /\ UNCHANGED <<Recipe, RecipeIngredient, req, resp,
                 inputVars, toggleVars, subVars, linkVars>>

(* update without the delete of the old line items. *)
RecipeUpdateDeleteSkipped(p) ==
  /\ pc[p] = "ru_delete"
  /\ pc' = [pc EXCEPT ![p] = "ru_item"]
  /\ UNCHANGED <<Recipe, RecipeIngredient, RecipeTags, req, resp,
                 inputVars, toggleVars, subVars, linkVars>>

(* update: instance.recipeingredient_set.all().delete() *)
RecipeUpdateDelete(p) ==
  /\ pc[p] = "ru_delete"
  /\ RecipeIngredient' = [RecipeIngredient EXCEPT ![req[p].recipe] = <<>>]
  /\ pc' = [pc EXCEPT ![p] = "ru_item"]
  /\ UNCHANGED <<Recipe, RecipeTags, req, resp,
                 inputVars, toggleVars, subVars, linkVars>>

(* update: the loop over ingredients_data; return instance *)
RecipeUpdateItem(p) ==
  /\ pc[p] = "ru_item"
  /\ InsertItem(p, "idle")
  /\ UNCHANGED <<Recipe, RecipeTags, inputVars, toggleVars, subVars, linkVars>>

(* destroy that leaves the cart entries of the recipe in place. *)
RecipeDestroyKeepsCart(p, pk) ==
  /\ pc[p] = "idle"
  /\ req' = [req EXCEPT ![p] = [op |-> "destroy", recipe |-> pk]]
  /\ pc' = pc
  /\ IF ~Recipe[pk].exists
       THEN /\ resp' = [resp EXCEPT ![p] = HTTP_404_NOT_FOUND]
            /\ UNCHANGED <<recipeVars, toggleVars, linkVars>>
       ELSE /\ resp' = [resp EXCEPT ![p] = HTTP_204_NO_CONTENT]
            /\ Recipe' = [Recipe EXCEPT ![pk] = NoRecipe]
            /\ RecipeIngredient' = [RecipeIngredient EXCEPT ![pk] = <<>>]
            /\ RecipeTags' = [RecipeTags EXCEPT ![pk] = {}]
            /\ Cart' = Cart
            /\ Favorite' = {row \in Favorite : row.recipe # pk}
            /\ Shortcut' = [Shortcut EXCEPT ![pk] = NoShortcut]
            /\ issued' = [issued EXCEPT ![pk] = {}]
  /\ UNCHANGED <<inputVars, subVars>>

(* destroy, by the recipe's author: get_object() and instance.delete(),     *)
(* which deletes the rows that refer to the recipe with on_delete=CASCADE   *)
(* in the same transaction.                                                 *)
RecipeDestroy(p, pk) ==
  /\ pc[p] = "idle"
  /\ req' = [req EXCEPT ![p] = [op |-> "destroy", recipe |-> pk]]
  /\ pc' = pc
  /\ IF ~Recipe[pk].exists
       THEN /\ resp' = [resp EXCEPT ![p] = HTTP_404_NOT_FOUND]
            /\ UNCHANGED <<recipeVars, toggleVars, linkVars>>
       ELSE /\ resp' = [resp EXCEPT ![p] = HTTP_204_NO_CONTENT]
            /\ Recipe' = [Recipe EXCEPT ![pk] = NoRecipe]
            /\ RecipeIngredient' = [RecipeIngredient EXCEPT ![pk] = <<>>]
            /\ RecipeTags' = [RecipeTags EXCEPT ![pk] = {}]
            /\ Cart' = {row \in Cart : row.recipe # pk}
            /\ Favorite' = {row \in Favorite : row.recipe # pk}
            /\ Shortcut' = [Shortcut EXCEPT ![pk] = NoShortcut]
            /\ issued' = [issued EXCEPT ![pk] = {}]
  /\ UNCHANGED <<inputVars, subVars>>

(* ------------------------------ shopping list ------------------------- *)

(* The Ingredient table, which no request of the API writes.  The model's   *)
(* rows: two rows of the same name and unit, a row of that name and         *)
(* another unit, and a row of another name (Ingredient declares no          *)
(* uniqueness).                                                             *)
CatalogIds == {"i1", "i2", "i3", "i4"}

Ingredient ==
  [i \in CatalogIds |->
     CASE i = "i1" -> [name |-> "flour", measurement_unit |-> "g"]
       [] i = "i2" -> [name |-> "salt",  measurement_unit |-> "g"]
       [] i = "i3" -> [name |-> "flour", measurement_unit |-> "kg"]
       [] i = "i4" -> [name |-> "flour", measurement_unit |-> "g"]]

HTTP_500_DOES_NOT_EXIST == "500 DoesNotExist"

(* if ingredient_name in ingredients_dict: ...['amount'] += amount          *)
(* else: ingredients_dict[ingredient_name] = {measurement_unit, amount}     *)
(* The dict is the sequence of its entries in insertion order.              *)
AddLine(dict, item) ==
  LET name == Ingredient[item.id].name
  IN  IF \E k \in 1..Len(dict) : dict[k].name = name
        THEN [k \in 1..Len(dict) |->
                IF dict[k].name = name
                  THEN [dict[k] EXCEPT !.amount = @ + item.amount]
                  ELSE dict[k]]
        ELSE Append(dict, [name |-> name,
                           measurement_unit |-> Ingredient[item.id].measurement_unit,
                           amount |-> item.amount])

(* for recipe_ingredient in recipe_ingredients: ... *)
RECURSIVE AddLines(_, _)
AddLines(dict, items) ==
  IF items = <<>> THEN dict
  ELSE AddLines(AddLine(dict, Head(items)), Tail(items))

(* The rows of a set in the order of their primary keys. *)
RECURSIVE RowsById(_)
RowsById(rows) ==
  IF rows = {} THEN <<>>
  ELSE LET row == CHOOSE r \in rows : \A other \in rows : r.id <= other.id
       IN  <<row>> \o RowsById(rows \ {row})

(* cart_items = Cart.objects.filter(user=user) *)
CartItems(user) == RowsById({row \in Cart : row.user = user})

(* download_shopping_cart: the Cart query, evaluated by the for statement;  *)
(* with no row the response is written at once.  seen: the tables as they   *)
(* were when the request arrived (history).                                 *)
DownloadBegin(p, user) ==
  /\ pc[p] = "idle"
  /\ LET cart_items == CartItems(user)
     IN  /\ req' = [req EXCEPT ![p] =
                      [op |-> "download", user |-> user, cart_items |-> cart_items,
                       dict |-> <<>>, seen |-> <<Cart, RecipeIngredient>>]]
         /\ IF cart_items = <<>>
              THEN /\ pc' = pc
                   /\ resp' = [resp EXCEPT ![p] = [status |-> HTTP_200_OK, lines |-> <<>>]]
              ELSE /\ pc' = [pc EXCEPT ![p] = "dl_recipe"]
                   /\ resp' = [resp EXCEPT ![p] = NoResp]
  /\ UNCHANGED <<recipeVars, inputVars, toggleVars, subVars, linkVars>>

(* download_shopping_cart: one pass of the outer loop: cart_item.recipe     *)
(* (which raises DoesNotExist when the recipe is gone), the RecipeIngredient *)
(* query and the inner loop; after the last pass, the response.             *)
DownloadRecipe(p) ==
  /\ pc[p] = "dl_recipe"
  /\ LET recipe == Head(req[p].cart_items).recipe
         rest == Tail(req[p].cart_items)
         dict == AddLines(req[p].dict, RecipeIngredient[recipe])
     IN  IF ~Recipe[recipe].exists
           THEN /\ pc' = [pc EXCEPT ![p] = "idle"]
                /\ resp' = [resp EXCEPT ![p] =
                              [status |-> HTTP_500_DOES_NOT_EXIST, lines |-> <<>>]]
                /\ req' = [req EXCEPT ![p].cart_items = <<>>, ![p].dict = <<>>]
           ELSE IF rest = <<>>
           THEN /\ pc' = [pc EXCEPT ![p] = "idle"]
                /\ resp' = [resp EXCEPT ![p] = [status |-> HTTP_200_OK, lines |-> dict]]
                /\ req' = [req EXCEPT ![p].cart_items = <<>>, ![p].dict = <<>>]
           ELSE /\ pc' = pc
                /\ resp' = resp
                /\ req' = [req EXCEPT ![p].cart_items = rest, ![p].dict = dict]
  /\ UNCHANGED <<recipeVars, inputVars, toggleVars, subVars, linkVars>>

(* ---------------------------- subscription listing ------------------- *)

(* The characters of a decimal digit string, in the order of their values. *)
Digits == <<"0", "1", "2", "3", "4", "5", "6", "7", "8", "9">>

DigitValue(c) == (CHOOSE i \in 1..Len(Digits) : Digits[i] = c) - 1

(* int(recipes_limit): the text is an optional sign and one or more digits, *)
(* otherwise ValueError.                                                    *)
Unsigned(text) ==
  IF text # <<>> /\ Head(text) \in {"+", "-"} THEN Tail(text) ELSE text

RaisesValueError(text) ==
  \/ Unsigned(text) = <<>>
  \/ \E i \in 1..Len(Unsigned(text)) :
       \A d \in 1..Len(Digits) : Unsigned(text)[i] # Digits[d]

RECURSIVE DigitsValue(_)
DigitsValue(text) ==
  IF text = <<>> THEN 0
  ELSE 10 * DigitsValue(SubSeq(text, 1, Len(text) - 1)) + DigitValue(text[Len(text)])

IntOf(text) ==
  IF Head(text) = "-" THEN 0 - DigitsValue(Unsigned(text)) ELSE DigitsValue(Unsigned(text))

(* The values of the query parameter recipes_limit: absent, or a text. *)
LimitTexts ==
  {<<"1">>, <<"2">>, <<"3">>, <<"0">>, <<"0", "2">>, <<"+", "1">>,
   <<"-", "1">>, <<"-", "0">>, <<"a">>, <<"1", "a">>, <<>>}

QueryParams ==
  {[given |-> FALSE, text |-> <<>>]} \cup {[given |-> TRUE, text |-> t] : t \in LimitTexts}

HTTP_500_ASSERTION == "500 AssertionError"

(* The order in which a Recipe queryset yields its rows. *)
RecipeOrder == <<"r1", "r2">>

(* Recipe.objects.filter(author=author) *)
RecipesOf(author) ==
  SelectSeq(RecipeOrder, LAMBDA r : Recipe[r].exists /\ Recipe[r].author = author)

(* recipes[:recipes_limit] for a limit that is not negative. *)
Slice(recipes, recipes_limit) ==
  SubSeq(recipes, 1, IF recipes_limit < Len(recipes) THEN recipes_limit ELSE Len(recipes))

(* get_recipes: the results it can give.  A negative bound of a queryset    *)
(* slice raises: ValueError in Django 4.0 and later, which the except       *)
(* clause swallows, AssertionError before, which nothing catches.           *)
GetRecipes(param, author) ==
  LET recipes == RecipesOf(author)
  IN  IF ~param.given THEN {[ok |-> TRUE, recipes |-> recipes]}
      ELSE IF RaisesValueError(param.text) THEN {[ok |-> TRUE, recipes |-> recipes]}
      ELSE IF IntOf(param.text) < 0
        THEN {[ok |-> TRUE, recipes |-> recipes], [ok |-> FALSE, recipes |-> <<>>]}
      ELSE {[ok |-> TRUE, recipes |-> Slice(recipes, IntOf(param.text))]}

(* recipes_count: source='author.recipe.count' *)
RecipesCount(author) == Len(RecipesOf(author))

(* list: subscriptions = Subscription.objects.filter(user=current_user),    *)
(* evaluated by the paginator.                                              *)
SubscriptionListBegin(p, user) ==
  /\ pc[p] = "idle"
  /\ LET subscriptions == RowsById({row \in Subscription : row.user = user})
     IN  /\ req' = [req EXCEPT ![p] =
                      [op |-> "list", user |-> user, subscriptions |-> subscriptions,
                       results |-> <<>>]]
         /\ IF subscriptions = <<>>
              THEN /\ pc' = pc
                   /\ resp' = [resp EXCEPT ![p] = [status |-> HTTP_200_OK, results |-> <<>>]]
              ELSE /\ pc' = [pc EXCEPT ![p] = "sl_row"]
                   /\ resp' = [resp EXCEPT ![p] = NoResp]
  /\ UNCHANGED <<recipeVars, inputVars, toggleVars, subVars, linkVars>>

(* serializer.data: the representation of the next subscription (recipes,   *)
(* recipes_count and the author); after the last, the response.             *)
SubscriptionListRow(p) ==
  /\ pc[p] = "sl_row"
  /\ LET author == Head(req[p].subscriptions).author
         rest == Tail(req[p].subscriptions)
     IN  \E got \in GetRecipes(payload, author) :
           LET results == Append(req[p].results,
                                 [author |-> author, recipes |-> got.recipes,
                                  recipes_count |-> RecipesCount(author)])
           IN  IF ~got.ok
                 THEN /\ pc' = [pc EXCEPT ![p] = "idle"]
                      /\ resp' = [resp EXCEPT ![p] =
                                    [status |-> HTTP_500_ASSERTION, results |-> <<>>]]
                      /\ req' = [req EXCEPT ![p].subscriptions = <<>>, ![p].results = <<>>]
                 ELSE IF rest = <<>>
                 THEN /\ pc' = [pc EXCEPT ![p] = "idle"]
                      /\ resp' = [resp EXCEPT ![p] =
                                    [status |-> HTTP_200_OK, results |-> results]]
                      /\ req' = [req EXCEPT ![p].subscriptions = <<>>, ![p].results = <<>>]
                 ELSE /\ pc' = pc
                      /\ resp' = resp
                      /\ req' = [req EXCEPT ![p].subscriptions = rest, ![p].results = results]
  /\ UNCHANGED <<recipeVars, inputVars, toggleVars, subVars, linkVars>>

(* ------------------------------ specifications ------------------------ *)

(* A database that holds the recipes `present`, each a valid composition     *)
(* (one line item, one tag, a positive cooking time), and no other row; no   *)
(* request is in flight.                                                     *)
InitTables(present) ==
  /\ Recipe = [r \in RecipeIds |-> IF r \in present THEN AValidRecipe ELSE NoRecipe]
  /\ RecipeIngredient = [r \in RecipeIds |->
                           IF r \in present THEN <<[id |-> "i1", amount |-> 1]>> ELSE <<>>]
  /\ RecipeTags = [r \in RecipeIds |-> IF r \in present THEN {"t1"} ELSE {}]
  /\ Cart = {}
  /\ Favorite = {}
  /\ Subscription = {}
  /\ Shortcut = [r \in RecipeIds |-> NoShortcut]
  /\ issued = [r \in RecipeIds |-> {}]
  /\ pc = [p \in Procs |-> "idle"]
  /\ req = [p \in Procs |-> NoReq]
  /\ resp = [p \in Procs |-> NoResp]

InitWith(present) == InitTables(present) /\ payload = NoPayload

(* The toggle is exercised on a database with recipe r1; r2 does not exist. *)
InitToggle == InitWith({"r1"})

NextToggle ==
  \E p \in Procs :
    \/ \E user \in Users, pk \in RecipeIds, action_type \in {"cart", "favorite"},
          method \in {"POST", "DELETE"} :
         ManageItemBegin(p, user, pk, action_type, method)
    \/ ManageItemExists(p)
    \/ ManageItemCreate(p)
    \/ ManageItemFirst(p)
    \/ ManageItemDelete(p)

SpecToggle == InitToggle /\ [][NextToggle]_vars

InitSub == InitWith({"r1"})

NextSub ==
  \E p \in Procs :
    \/ \E user \in Users, author_id \in AuthorIds : SubscribeBegin(p, user, author_id)
    \/ SubscribeSave(p)
    \/ \E user \in Users, author_id \in AuthorIds : UnsubscribeBegin(p, user, author_id)
    \/ UnsubscribeDelete(p)

(* The subscribe and unsubscribe requests of any users, in any interleaving. *)
SpecSub == InitSub /\ [][NextSub]_vars

NextSubAdmin ==
  \/ NextSub
  \/ \E user \in Users, author \in Users : SubscriptionAdminAdd(user, author)

(* The same, on a table that the admin site writes too. *)
SpecSubAdmin == InitSub /\ [][NextSubAdmin]_vars

(* The short-link issuer is exercised on a database with recipes r1 and r2. *)
InitLink == InitWith({"r1", "r2"})

NextLink ==
  \E p \in Procs :
    \/ \E pk \in RecipeIds : GetShortLinkBegin(p, pk)
    \/ GetShortLinkSave(p)

SpecLink == InitLink /\ [][NextLink]_vars

(* The recipe requests, served one at a time, on a database that starts     *)
(* without recipes.  The bodies are those that pass the validation and one  *)
(* that does not; SpecValidate covers every body of RecipeInputs.           *)
InitRecipe == InitWith({})

RecipeBodies == AcceptedInputs \cup {ARejectedInput}

NextRecipe ==
  \E p \in {"p1"} :
    \/ \E user \in Users, data \in RecipeBodies : RecipeCreateBegin(p, user, data)
    \/ RecipeCreateItem(p)
    \/ RecipeCreateTags(p)
    \/ \E pk \in RecipeIds, data \in RecipeBodies : RecipeUpdateBegin(p, pk, data)
    \/ RecipeUpdateTags(p)
    \/ RecipeUpdateDelete(p)
    \/ RecipeUpdateItem(p)
    \/ \E pk \in RecipeIds : RecipeDestroy(p, pk)

SpecRecipe == InitRecipe /\ [][NextRecipe]_vars

(* One request body, any of RecipeInputs, sent as create-recipe and as      *)
(* update-recipe requests to a database without recipes or with recipe r1.  *)
InitValidate ==
  /\ \E present \in {{}, {"r1"}} : InitTables(present)
  /\ payload \in RecipeInputs

NextValidate ==
  \E p \in {"p1"} :
    \/ \E user \in Users : RecipeCreateBegin(p, user, payload)
    \/ RecipeCreateItem(p)
    \/ RecipeCreateTags(p)
    \/ \E pk \in RecipeIds : RecipeUpdateBegin(p, pk, payload)
    \/ RecipeUpdateTags(p)
    \/ RecipeUpdateDelete(p)
    \/ RecipeUpdateItem(p)

SpecValidate == InitValidate /\ [][NextValidate]_vars

(* Update-recipe requests for the stored recipe r1, one body per request    *)
(* slot, each body one that passes the validation.                          *)
UpdateBodies == {data \in AcceptedInputs : data.cooking_time = 1}

InitUpdate ==
  /\ InitTables({"r1"})
  /\ payload \in [Procs -> UpdateBodies]

(* No other request is in flight. *)
Alone(p) == \A q \in Procs \ {p} : pc[q] = "idle"

(* The requests served one after the other. *)
NextUpdateSeq ==
  \E p \in Procs :
    \/ Alone(p) /\ RecipeUpdateBegin(p, "r1", payload[p])
    \/ Alone(p) /\ RecipeUpdateTags(p)
    \/ Alone(p) /\ RecipeUpdateDelete(p)
    \/ Alone(p) /\ RecipeUpdateItem(p)

SpecUpdateSeq == InitUpdate /\ [][NextUpdateSeq]_vars

(* The requests served concurrently, a statement at a time; the bodies are  *)
(* those with amounts that every database stores.                           *)
StorableBodies ==
  {data \in UpdateBodies :
     \A i \in 1..Len(data.ingredients) :
       data.ingredients[i].amount <= PositiveSmallIntegerMax}

InitUpdateConcurrent ==
  /\ InitTables({"r1"})
  /\ payload \in [Procs -> StorableBodies]

NextUpdate ==
  \E p \in Procs :
    \/ RecipeUpdateBegin(p, "r1", payload[p])
    \/ RecipeUpdateTags(p)
    \/ RecipeUpdateDelete(p)
    \/ RecipeUpdateItem(p)

SpecUpdate == InitUpdateConcurrent /\ [][NextUpdate]_vars

(* The shopping list and the deletion of a recipe, served concurrently, on   *)
(* a database with the recipes r1 and r2, their line items over the catalog, *)
(* and any cart and favorite entries, one row at most per user and recipe    *)
(* in a table (the rows a sequence of toggle requests leaves).               *)
CartCompositions ==
  [r1 : {<<[id |-> "i1", amount |-> 1], [id |-> "i2", amount |-> 2]>>,
         <<[id |-> "i1", amount |-> 2], [id |-> "i4", amount |-> 1]>>},
   r2 : {<<[id |-> "i3", amount |-> 1]>>,
         <<[id |-> "i1", amount |-> 2], [id |-> "i2", amount |-> 1]>>}]

(* The rows of the (user, recipe) pairs, with the keys after `last`. *)
RECURSIVE RowsOf(_, _)
RowsOf(pairs, last) ==
  IF pairs = {} THEN {}
  ELSE LET x == CHOOSE y \in pairs : TRUE
       IN  {[id |-> last + 1, user |-> x[1], recipe |-> x[2]]}
             \cup RowsOf(pairs \ {x}, last + 1)

InitCart ==
  /\ Recipe = [r \in RecipeIds |-> AValidRecipe]
  /\ RecipeIngredient \in CartCompositions
  /\ RecipeTags = [r \in RecipeIds |-> {"t1"}]
  /\ \E c, f \in SUBSET (Users \X RecipeIds) :
       /\ Cardinality(c) + Cardinality(f) <= MaxRows
       /\ Cart = RowsOf(c, 0)
       /\ Favorite = RowsOf(f, Cardinality(c))
  /\ Subscription = {}
  /\ Shortcut = [r \in RecipeIds |-> NoShortcut]
  /\ issued = [r \in RecipeIds |-> {}]
  /\ pc = [p \in Procs |-> "idle"]
  /\ req = [p \in Procs |-> NoReq]
  /\ resp = [p \in Procs |-> NoResp]
  /\ payload = NoPayload

NextCart ==
  \E p \in Procs :
    \/ \E user \in Users : DownloadBegin(p, user)
    \/ DownloadRecipe(p)
    \/ \E pk \in RecipeIds : RecipeDestroy(p, pk)

SpecCart == InitCart /\ [][NextCart]_vars

(* Subscription listings with one value of recipes_limit, on a database    *)
(* with any recipes of the two users and any subscriptions between them.    *)
InitList ==
  /\ Recipe \in [RecipeIds -> {NoRecipe} \cup
                   {[exists |-> TRUE, author |-> u, cooking_time |-> 1] : u \in Users}]
  /\ RecipeIngredient =
       [r \in RecipeIds |-> IF Recipe[r].exists THEN <<[id |-> "i1", amount |-> 1]>> ELSE <<>>]
  /\ RecipeTags = [r \in RecipeIds |-> IF Recipe[r].exists THEN {"t1"} ELSE {}]
  /\ Cart = {}
  /\ Favorite = {}
  /\ \E pairs \in SUBSET {<<"u1", "u2">>, <<"u2", "u1">>} :
       Subscription = {[id |-> row.id, user |-> row.user, author |-> row.recipe] :
                         row \in RowsOf(pairs, 0)}
  /\ Shortcut = [r \in RecipeIds |-> NoShortcut]
  /\ issued = [r \in RecipeIds |-> {}]
  /\ pc = [p \in Procs |-> "idle"]
  /\ req = [p \in Procs |-> NoReq]
  /\ resp = [p \in Procs |-> NoResp]
  /\ payload \in QueryParams

NextList ==
  \E p \in Procs :
    \/ \E user \in Users : SubscriptionListBegin(p, user)
    \/ SubscriptionListRow(p)

SpecList == InitList /\ [][NextList]_vars

(* ================================ claims ============================== *)

ActionTypes == {"cart", "favorite"}

(* The pair (user, recipe) is PRESENT in the relation of the action type. *)
Present(action_type, user, recipe) ==
  \E row \in Objects(action_type) : row.user = user /\ row.recipe = recipe

(* Slot p runs manage_item for this relation and pair. *)
Manages(p, action_type, user, recipe) ==
  /\ req[p].op = "manage_item"
  /\ req[p].action_type = action_type
  /\ req[p].user = user
  /\ req[p].recipe = recipe

(* C1: for each relation kind and each (user, recipe) pair, an add request  *)
(* that finds the pair PRESENT is answered 400 (already exists) and leaves  *)
(* both membership tables as they were; an add request that finds the pair  *)
(* ABSENT goes on to create the entry, is answered 201, and the pair is     *)
(* PRESENT once it has been served.                                         *)
C1_AddContract ==
  [][\A p \in Procs, t \in ActionTypes, u \in Users, r \in RecipeIds :
       Manages(p, t, u, r) =>
         /\ (pc[p] = "mi_exists" /\ pc'[p] # "mi_exists" /\ Present(t, u, r)) =>
               /\ pc'[p] = "idle"
               /\ resp'[p] = HTTP_400_ALREADY
               /\ Cart' = Cart
               /\ Favorite' = Favorite
         /\ (pc[p] = "mi_exists" /\ pc'[p] # "mi_exists" /\ ~Present(t, u, r)) =>
               pc'[p] = "mi_create"
         /\ (pc[p] = "mi_create" /\ pc'[p] # "mi_create") =>
               /\ pc'[p] = "idle"
               /\ resp'[p] = HTTP_201_CREATED
               /\ Present(t, u, r)'
     ]_vars

(* C1 witness: an add has been refused for a pair that is PRESENT, with its *)
(* one entry, and another add has created an entry.                         *)
C1_Witness ==
  \E p, q \in Procs :
    /\ pc[p] = "idle" /\ req[p].op = "manage_item" /\ req[p].method = "POST"
    /\ resp[p] = HTTP_400_ALREADY
    /\ Cardinality(Filter(req[p].action_type, req[p].user, req[p].recipe)) = 1
    /\ pc[q] = "idle" /\ req[q].op = "manage_item" /\ req[q].method = "POST"
    /\ resp[q] = HTTP_201_CREATED

(* C2: for each relation kind and each (user, recipe) pair, a remove        *)
(* request that finds the pair ABSENT is answered with the not-found error  *)
(* and changes nothing; a remove request that succeeds (204) leaves the     *)
(* pair ABSENT: no entry for that (user, recipe) remains.                   *)
C2_RemoveContract ==
  [][\A p \in Procs, t \in ActionTypes, u \in Users, r \in RecipeIds :
       Manages(p, t, u, r) =>
         /\ (pc[p] = "mi_first" /\ pc'[p] # "mi_first" /\ ~Present(t, u, r)) =>
               /\ pc'[p] = "idle"
               /\ resp'[p] = HTTP_400_NOT_IN
               /\ Cart' = Cart
               /\ Favorite' = Favorite
         /\ (pc[p] = "mi_delete" /\ pc'[p] = "idle" /\ resp'[p] = HTTP_204_NO_CONTENT) =>
               ~Present(t, u, r)'
     ]_vars

(* C3: in every reachable state the Cart relation and the Favorite relation *)
(* each hold at most one entry per (user, recipe) pair.                     *)
C3_UniquePerPair ==
  \A t \in ActionTypes, u \in Users, r \in RecipeIds :
    Cardinality(Filter(t, u, r)) <= 1

(* C4: a subscribe request whose follower is the author is always answered  *)
(* with the self-subscription error, whatever rows the Subscription table   *)
(* holds (a row for that very pair included), and it writes no row: the     *)
(* request never reaches the INSERT.                                        *)
C4_SelfSubscribeRejected ==
  \A p \in Procs :
    (req[p].op = "subscribe" /\ req[p].user = req[p].author) =>
       /\ pc[p] = "idle"
       /\ resp[p] = HTTP_400_SELF

(* C4 witness: a self-subscribe request has been answered while the table   *)
(* holds a row for that very (user, user) pair and a row of another pair.   *)
C4_Witness ==
  \E p \in Procs :
    /\ req[p].op = "subscribe" /\ req[p].user = req[p].author
    /\ resp[p] = HTTP_400_SELF
    /\ SubFilter(req[p].user, req[p].user) # {}
    /\ \E row \in Subscription : row.user # row.author

(* C5: after any interleaving of subscribe and unsubscribe requests no      *)
(* stored Subscription has follower = author, there is at most one stored   *)
(* Subscription per (follower, author) pair, and a subscribe request on a   *)
(* pair that is subscribed is rejected and leaves the table unchanged.      *)
C5_SubscriptionInvariant ==
  /\ [](/\ \A row \in Subscription : row.user # row.author
        /\ \A u \in Users, a \in Users : Cardinality(SubFilter(u, a)) <= 1)
  /\ [][\A p \in Procs :
          (/\ req'[p].op = "subscribe"
           /\ pc[p] \in {"idle", "sub_save"}
           /\ <<pc[p], req[p], resp[p]>> # <<pc'[p], req'[p], resp'[p]>>
           /\ SubFilter(req'[p].user, req'[p].author) # {}) =>
              /\ pc'[p] = "idle"
              /\ resp'[p] \in {HTTP_400_SUBSCRIBED, HTTP_500_INTEGRITY}
              /\ Subscription' = Subscription
       ]_vars

(* C5 witness: two subscriptions are stored, one subscribe request was      *)
(* refused by the existence check and one by the unique constraint.         *)
C5_Witness ==
  /\ Cardinality(Subscription) = 2
  /\ \E p, q \in Procs :
       /\ resp[p] = HTTP_400_SUBSCRIBED /\ pc[p] = "idle"
       /\ resp[q] = HTTP_500_INTEGRITY /\ pc[q] = "idle"

(* C6: short-link issuance is idempotent per recipe: once a get-link        *)
(* response for a recipe has carried a token, no later response for that    *)
(* recipe carries anything else, and the stored token of the recipe is the  *)
(* one returned and is not changed by any later request.                    *)
C6_LinkIdempotent ==
  [][\A r \in RecipeIds :
       (issued[r] \cap Links # {}) =>
          /\ issued'[r] = issued[r]
          /\ Shortcut[r] \in issued[r] \cap Links
          /\ Shortcut'[r] = Shortcut[r]
     ]_vars

(* C6 witness: two requests for one recipe have both been answered with the *)
(* token stored for the recipe, the one that created it and a later one.    *)
C6_Witness ==
  \E p, q \in Procs :
    /\ p # q
    /\ pc[p] = "idle" /\ pc[q] = "idle"
    /\ req[p].op = "get_link" /\ req[q].op = "get_link"
    /\ req[p].recipe = req[q].recipe
    /\ Shortcut[req[p].recipe] \in Links
    /\ resp[p] = ShortLinkUrl(Shortcut[req[p].recipe])
    /\ resp[q] = resp[p]
    /\ issued[req[p].recipe] = {Shortcut[req[p].recipe]}

(* C7: the tokens persisted for distinct recipes are pairwise distinct, and *)
(* the issuer redraws on a collision: a request that is to issue a token    *)
(* ends only once it has persisted a token that no other recipe holds.      *)
C7_NoDuplicateByRedraw ==
  /\ [](\A r1, r2 \in RecipeIds :
          (r1 # r2 /\ Shortcut[r1] \in Links) => Shortcut[r1] # Shortcut[r2])
  /\ [][\A p \in Procs :
          (pc[p] = "gl_save" /\ pc'[p] = "idle") =>
             /\ Shortcut'[req[p].recipe] \in Links
             /\ resp'[p] = ShortLinkUrl(Shortcut'[req[p].recipe])
             /\ ~LinkTaken(Shortcut[req[p].recipe], req[p].recipe)'
       ]_vars

(* The bodies C8 lists: an empty ingredient list, a repeated ingredient     *)
(* identifier, an empty tag set, a repeated tag, a non-positive cooking     *)
(* time, a missing image, or a line item with amount <= 0.                  *)
Rejectable(data) ==
  \/ data.ingredients = <<>>
  \/ \E i, j \in 1..Len(data.ingredients) :
       i # j /\ data.ingredients[i].id = data.ingredients[j].id
  \/ data.tags = <<>>
  \/ \E i, j \in 1..Len(data.tags) : i # j /\ data.tags[i] = data.tags[j]
  \/ data.cooking_time <= 0
  \/ ~data.image
  \/ \E i \in 1..Len(data.ingredients) : data.ingredients[i].amount <= 0

(* C8: a create-recipe or update-recipe request whose body is one of those  *)
(* is answered with a validation error (an update of a recipe that does not *)
(* exist, with 404), no write follows, and the stored recipes, line items   *)
(* and tag associations stay exactly what they were.                        *)
C8_InvalidInputRejected ==
  [][Rejectable(payload) =>
       /\ UNCHANGED recipeVars
       /\ \A p \in Procs :
            /\ pc'[p] = "idle"
            /\ (resp'[p] # resp[p] \/ req'[p] # req[p]) =>
                 \/ resp'[p] \in ValidationErrors
                 \/ /\ req'[p].op = "update"
                    /\ ~Recipe[req'[p].recipe].exists
                    /\ resp'[p] = HTTP_404_NOT_FOUND
     ]_vars

(* C8 witness: an update of the stored recipe r1 whose body repeats an      *)
(* ingredient has been refused, and r1 is as it was.                        *)
C8_Witness ==
  /\ Len(payload.ingredients) = 2
  /\ payload.ingredients[1].id = payload.ingredients[2].id
  /\ req["p1"].op = "update" /\ req["p1"].recipe = "r1" /\ pc["p1"] = "idle"
  /\ resp["p1"] = E_DUPLICATE_INGREDIENTS
  /\ Recipe["r1"] = AValidRecipe
  /\ RecipeIngredient["r1"] = <<[id |-> "i1", amount |-> 1]>>
  /\ RecipeTags["r1"] = {"t1"}

(* C9: whenever no request is in flight, every stored recipe has a          *)
(* non-empty list of line items with pairwise distinct ingredients and      *)
(* amounts > 0, a non-empty tag set, and cooking_time > 0.                  *)
C9_StoredRecipesWellFormed ==
  (\A p \in Procs : pc[p] = "idle") =>
    \A r \in LiveRecipes :
      /\ RecipeIngredient[r] # <<>>
      /\ \A i, j \in 1..Len(RecipeIngredient[r]) :
           i # j => RecipeIngredient[r][i].id # RecipeIngredient[r][j].id
      /\ \A i \in 1..Len(RecipeIngredient[r]) : RecipeIngredient[r][i].amount > 0
      /\ RecipeTags[r] # {}
      /\ Recipe[r].cooking_time > 0

(* C10: recipe creation and update are all-or-nothing: once a create has    *)
(* failed after its first write, neither the recipe row nor a line item or  *)
(* tag of it exists; once an update has failed, the recipe has exactly the  *)
(* fields, line items and tags it had when the request arrived.             *)
C10_AllOrNothing ==
  \A p \in Procs :
    (pc[p] = "idle" /\ resp[p] = HTTP_500_DATA) =>
      IF req[p].op = "create"
        THEN /\ ~Recipe[req[p].recipe].exists
             /\ RecipeIngredient[req[p].recipe] = <<>>
             /\ RecipeTags[req[p].recipe] = {}
        ELSE <<Recipe[req[p].recipe], RecipeIngredient[req[p].recipe],
               RecipeTags[req[p].recipe]>> = req[p].old

(* C11: update-recipe replaces the composition in full: when an update with *)
(* line-item list L and tag set T succeeds, the recipe's stored line items  *)
(* are exactly L and its stored tags exactly T, whatever it held before.    *)
C11_ReplaceInFull ==
  [][\A p \in Procs :
       (pc[p] = "ru_item" /\ pc'[p] = "idle" /\ resp'[p] = HTTP_200_OK) =>
          /\ RecipeIngredient'["r1"] = payload[p].ingredients
          /\ RecipeTags'["r1"] = SeqToSet(payload[p].tags)
    ]_vars

(* C11 witness: two successive updates with disjoint line-item sets have    *)
(* succeeded, and the recipe holds exactly the second set.                  *)
C11_Witness ==
  /\ \A p \in Procs : pc[p] = "idle" /\ resp[p] = HTTP_200_OK
  /\ payload["p1"].ingredients = <<[id |-> "i1", amount |-> 1]>>
  /\ payload["p2"].ingredients = <<[id |-> "i2", amount |-> 1]>>
  /\ payload["p1"].tags = <<"t1">> /\ payload["p2"].tags = <<"t2">>
  /\ RecipeIngredient["r1"] = <<[id |-> "i2", amount |-> 1]>>
  /\ RecipeTags["r1"] = {"t2"}

(* The recipes in a user's cart, their line items as (recipe, position)     *)
(* pairs, and the sum of the amounts of a set of line items.                *)
CartRecipes(user) == {row.recipe : row \in {c \in Cart : c.user = user}}

CartLineItems(user) ==
  UNION {{<<r, k>> : k \in 1..Len(RecipeIngredient[r])} : r \in CartRecipes(user)}

LineIngredient(x) == Ingredient[RecipeIngredient[x[1]][x[2]].id]

RECURSIVE SumAmounts(_)
SumAmounts(items) ==
  IF items = {} THEN 0
  ELSE LET x == CHOOSE y \in items : TRUE
       IN  RecipeIngredient[x[1]][x[2]].amount + SumAmounts(items \ {x})

(* The line items of the user's cart with the ingredient of line item x     *)
(* (the same name and the same unit).                                       *)
SameIngredient(user, x) ==
  {y \in CartLineItems(user) : LineIngredient(y) = LineIngredient(x)}

(* Slot p holds the answer to a shopping-list request, and the tables are   *)
(* as they were when the request arrived.                                   *)
Answered(p) ==
  /\ pc[p] = "idle"
  /\ req[p].op = "download"
  /\ req[p].seen = <<Cart, RecipeIngredient>>

(* C12: the shopping list has exactly one line per ingredient occurring in  *)
(* a line item of a recipe in the user's cart, with the sum of the amounts  *)
(* of all line items with that ingredient over the recipes in that user's   *)
(* cart, and no other line; for an empty cart it has no line and is not an  *)
(* error.                                                                   *)
C12_ShoppingListSums ==
  \A p \in Procs :
    Answered(p) =>
      LET lines == resp[p].lines
          user == req[p].user
          LinesOf(x) == {k \in 1..Len(lines) :
                           /\ lines[k].name = LineIngredient(x).name
                           /\ lines[k].measurement_unit = LineIngredient(x).measurement_unit}
      IN  /\ resp[p].status = HTTP_200_OK
          /\ \A x \in CartLineItems(user) :
               /\ Cardinality(LinesOf(x)) = 1
               /\ \A k \in LinesOf(x) : lines[k].amount = SumAmounts(SameIngredient(user, x))
          /\ \A k \in 1..Len(lines) : \E x \in CartLineItems(user) : k \in LinesOf(x)

(* The line of the shopping list that line item x of the cart should be     *)
(* counted in: its ingredient's name and unit, and the sum of the amounts   *)
(* of the line items with that name and unit.                               *)
LineFor(user, x) ==
  [name |-> LineIngredient(x).name,
   measurement_unit |-> LineIngredient(x).measurement_unit,
   amount |-> SumAmounts(SameIngredient(user, x))]

(* C13: the shopping list groups line items by (ingredient name, unit):     *)
(* two ingredients of the same name and unit are summed into one line; two  *)
(* of the same name and different units appear as two separate lines, each  *)
(* with its own unit and the sum of its own amounts only.                   *)
C13_GroupByNameAndUnit ==
  \A p \in Procs :
    Answered(p) =>
      LET lines == resp[p].lines
          user == req[p].user
      IN  \A x, y \in CartLineItems(user) :
            LineIngredient(x).name = LineIngredient(y).name =>
              IF LineIngredient(x).measurement_unit = LineIngredient(y).measurement_unit
                THEN Cardinality({k \in 1..Len(lines) : lines[k] = LineFor(user, x)}) = 1
                ELSE \E k1, k2 \in 1..Len(lines) :
                       /\ k1 # k2
                       /\ lines[k1] = LineFor(user, x)
                       /\ lines[k2] = LineFor(user, y)

(* The sum of the amounts of a list of line items or of shopping-list       *)
(* lines.                                                                   *)
RECURSIVE Total(_)
Total(lines) == IF lines = <<>> THEN 0 ELSE Head(lines).amount + Total(Tail(lines))

(* The sum of the amounts of the line items of the recipes of a set of cart *)
(* rows, the line items being those of the table `stored`.                  *)
RECURSIVE TotalOfRows(_, _)
TotalOfRows(rows, stored) ==
  IF rows = {} THEN 0
  ELSE LET row == CHOOSE r \in rows : TRUE
       IN  Total(stored[row.recipe]) + TotalOfRows(rows \ {row}, stored)

(* C14: recipe deletion cascades: once a recipe is deleted, no line item,   *)
(* no favorite entry and no cart entry references it, and a shopping list   *)
(* requested afterwards counts the line items of the undeleted recipes of   *)
(* the user's cart only.                                                    *)
C14_DeletionCascades ==
  /\ \A r \in RecipeIds :
       ~Recipe[r].exists =>
          /\ RecipeIngredient[r] = <<>>
          /\ \A row \in Cart \cup Favorite : row.recipe # r
  /\ \A p \in Procs :
       (pc[p] = "idle" /\ req[p].op = "download") =>
          /\ \A row \in req[p].seen[1] : req[p].seen[2][row.recipe] # <<>>
          /\ resp[p].status = HTTP_200_OK =>
               Total(resp[p].lines) =
                 TotalOfRows({row \in req[p].seen[1] : row.user = req[p].user},
                             req[p].seen[2])

(* C14 witness: r1 has been deleted, and with it the cart row 1; the        *)
(* shopping list requested afterwards by the owner of cart row 2, of r2,    *)
(* counts the line items of r2.                                             *)
C14_Witness ==
  /\ ~Recipe["r1"].exists /\ Recipe["r2"].exists
  /\ req["p1"] = [op |-> "destroy", recipe |-> "r1"]
  /\ resp["p1"] = HTTP_204_NO_CONTENT
  /\ \E user \in Users :
       /\ Cart = {[id |-> 2, user |-> user, recipe |-> "r2"]}
       /\ pc["p2"] = "idle" /\ req["p2"].op = "download" /\ req["p2"].user = user
       /\ req["p2"].seen = <<Cart, RecipeIngredient>>
       /\ resp["p2"].status = HTTP_200_OK
       /\ Total(resp["p2"].lines) = Total(RecipeIngredient["r2"])

(* The limit parameter is a positive integer: digits, not all of them 0,    *)
(* with or without a plus sign.                                             *)
IsPositiveLimit(param) ==
  /\ param.given
  /\ LET body == IF param.text # <<>> /\ Head(param.text) = "+"
                   THEN Tail(param.text) ELSE param.text
     IN  /\ body # <<>>
         /\ \A i \in 1..Len(body) : \E d \in 1..Len(Digits) : body[i] = Digits[d]
         /\ \E i \in 1..Len(body) : body[i] # "0"

(* C15: in a subscription listing each author's recipe list is capped by    *)
(* the limit parameter only when that is a positive integer, and then holds *)
(* at most that many recipes; a limit that is zero, negative or not numeric *)
(* is ignored and the full list is returned; the recipe count is the        *)
(* author's total number of recipes whatever the limit.                     *)
C15_RecipesLimit ==
  \A p \in Procs :
    (pc[p] = "idle" /\ req[p].op = "list") =>
      /\ resp[p].status = HTTP_200_OK
      /\ \A k \in 1..Len(resp[p].results) :
           LET entry == resp[p].results[k]
               all == RecipesOf(entry.author)
           IN  /\ entry.recipes_count = Len(all)
               /\ IF IsPositiveLimit(payload)
                    THEN /\ Len(entry.recipes) <= IntOf(payload.text)
                         /\ entry.recipes = SubSeq(all, 1, Len(entry.recipes))
                         /\ Len(entry.recipes) < IntOf(payload.text) => entry.recipes = all
                    ELSE entry.recipes = all

(* The constraints (a)..(f) of the recipe validation, in their order, the   *)
(* ones a body violates, and the errors that report a constraint.           *)
ConstraintOrder == <<"a", "b", "c", "d", "e", "f">>

Violates(data, c) ==
  CASE c = "a" -> data.ingredients = <<>>
    [] c = "b" -> \E i, j \in 1..Len(data.ingredients) :
                    i # j /\ data.ingredients[i].id = data.ingredients[j].id
    [] c = "c" -> data.tags = <<>>
    [] c = "d" -> \E i, j \in 1..Len(data.tags) : i # j /\ data.tags[i] = data.tags[j]
    [] c = "e" -> data.cooking_time <= 0
    [] c = "f" -> ~data.image

ErrorsOf(c) ==
  CASE c = "a" -> {E_NO_INGREDIENTS}
    [] c = "b" -> {E_DUPLICATE_INGREDIENTS}
    [] c = "c" -> {E_NO_TAGS}
    [] c = "d" -> {E_DUPLICATE_TAGS}
    [] c = "e" -> {E_COOKING_TIME, E_FIELD_COOKING_TIME}
    [] c = "f" -> {E_NO_IMAGE}

EarliestViolated(data) ==
  ConstraintOrder[CHOOSE k \in 1..Len(ConstraintOrder) :
                    /\ Violates(data, ConstraintOrder[k])
                    /\ \A j \in 1..(k - 1) : ~Violates(data, ConstraintOrder[j])]

(* C16: the recipe validation checks (a) ingredient list non-empty, (b)     *)
(* ingredient ids distinct, (c) tag set non-empty, (d) tags distinct, (e)   *)
(* cooking time positive, (f) image present, in this order: the error       *)
(* reported for a body that violates several is the one of the earliest     *)
(* violated constraint.                                                     *)
C16_EarliestErrorReported ==
  \A p \in Procs :
    ( /\ pc[p] = "idle"
      /\ req[p].op \in {"create", "update"}
      /\ resp[p] # HTTP_404_NOT_FOUND
      /\ \E k \in 1..Len(ConstraintOrder) : Violates(payload, ConstraintOrder[k]) ) =>
        resp[p] \in ErrorsOf(EarliestViolated(payload))

(* C17: when two get-link requests for the same recipe, which has no token  *)
(* yet, run concurrently, then in any interleaving both responses carry the *)
(* same token, which is the 6-character token stored for the recipe, in the *)
(* one short-link record of the recipe.                                     *)
C17_ConcurrentGetLink ==
  \A p, q \in Procs :
    ( /\ p # q
      /\ pc[p] = "idle" /\ pc[q] = "idle"
      /\ req[p].op = "get_link" /\ req[q].op = "get_link"
      /\ req[p].recipe = req[q].recipe
      /\ Recipe[req[p].recipe].exists ) =>
        /\ Shortcut[req[p].recipe] \in Links
        /\ resp[p] = ShortLinkUrl(Shortcut[req[p].recipe])
        /\ resp[q] = resp[p]

(* C18: when two valid update-recipe requests for the same recipe run       *)
(* concurrently with line-item lists L1 and L2 and both succeed, then in    *)
(* any interleaving of their delete and insert steps the recipe's stored    *)
(* line items are exactly L1 or exactly L2: never a mixture of both, and    *)
(* never two line items with the same ingredient.                           *)
C18_ConcurrentUpdates ==
  ( \A p \in Procs :
      /\ pc[p] = "idle"
      /\ req[p].op = "update"
      /\ resp[p] = HTTP_200_OK ) =>
    /\ \E p \in Procs : RecipeIngredient["r1"] = payload[p].ingredients
    /\ \A i, j \in 1..Len(RecipeIngredient["r1"]) :
         i # j => RecipeIngredient["r1"][i].id # RecipeIngredient["r1"][j].id

====
